---- MODULE Spec2Model ----
(***************************************************************************)
(* Binance RSI scanner (src/main.py): universe resolution with a persisted *)
(* cache, bounded-parallel per-symbol "fetch klines -> RSI -> spot price   *)
(* -> print" workers, and the lock-protected output sink.                  *)
(*                                                                         *)
(* Representation.  A Python str is a sequence of one-character strings,   *)
(* so that strip(), upper(), endswith() and the line format of the cache   *)
(* file are computed, not assumed.  A float is an exact rational <<n, d>>  *)
(* in lowest terms with d > 0 (rounding is not modelled); <<0, 0>> is NaN  *)
(* and <<>> is Python's None.                                              *)
(***************************************************************************)
EXTENDS Integers, Sequences, FiniteSets, TLC

\* ------------------------------------------------------------ constants

RSI_THRESHOLD == 30
RSI_PERIOD == 14

\* Bounds of the model.
MaxSymbols == 2      \* records of a listing response / lines of a cache file
MaxCapacity == 2     \* largest worker-pool capacity tried (the source sets 40)
MaxPrice == 3        \* closes of an exhaustively enumerated series: 0..MaxPrice
MaxExtra == 2        \* an enumerated series has at most period + MaxExtra closes

None == <<>>
NaN == <<0, 0>>

\* ------------------------------------------------------------ strings

Str_USDT == <<"U", "S", "D", "T">>
NL == "\n"
Whitespace == {" ", NL}

LowerChars == <<"a", "b", "d", "s", "t", "u">>
UpperChars == <<"A", "B", "D", "S", "T", "U">>

\* str.upper(), one character
UpperChar(c) ==
    IF \E k \in 1..Len(LowerChars) : LowerChars[k] = c
    THEN UpperChars[CHOOSE k \in 1..Len(LowerChars) : LowerChars[k] = c]
    ELSE c

\* str.upper()
Upper(s) == [k \in 1..Len(s) |-> UpperChar(s[k])]

RECURSIVE LStrip(_)
LStrip(s) ==
    IF s # <<>> /\ Head(s) \in Whitespace THEN LStrip(Tail(s)) ELSE s

RECURSIVE RStrip(_)
RStrip(s) ==
    IF s # <<>> /\ s[Len(s)] \in Whitespace
    THEN RStrip(SubSeq(s, 1, Len(s) - 1))
    ELSE s

\* str.strip()
Strip(s) == RStrip(LStrip(s))

\* str.endswith(suffix)
EndsWith(s, suffix) ==
    /\ Len(s) >= Len(suffix)
    /\ SubSeq(s, Len(s) - Len(suffix) + 1, Len(s)) = suffix

\* f.readlines(): the lines of a text, each with its line end kept
RECURSIVE ReadLines(_)
ReadLines(text) ==
    IF text = <<>> THEN <<>>
    ELSE IF \E k \in 1..Len(text) : text[k] = NL
         THEN LET k == CHOOSE j \in 1..Len(text) :
                          /\ text[j] = NL
                          /\ \A h \in 1..(j - 1) : text[h] # NL
              IN  <<SubSeq(text, 1, k)>> \o ReadLines(SubSeq(text, k + 1, Len(text)))
         ELSE <<text>>

\* for pair in usdt_pairs: f.write(pair + "\n")
RECURSIVE WriteLines(_)
WriteLines(pairs) ==
    IF pairs = <<>> THEN <<>>
    ELSE Head(pairs) \o <<NL>> \o WriteLines(Tail(pairs))

\* [line.strip() for line in f.readlines()]
ReadCoinsFile(text) ==
    LET lines == ReadLines(text)
    IN  [k \in 1..Len(lines) |-> Strip(lines[k])]

\* ---------------------------------------------------------- rationals

RECURSIVE GCD(_, _)
GCD(a, b) == IF b = 0 THEN a ELSE GCD(b, a % b)

Abs(a) == IF a < 0 THEN -a ELSE a

IsNaN(r) == r[2] = 0

Rat(n, d) ==
    IF d = 0 THEN NaN
    ELSE LET g == GCD(Abs(n), Abs(d))
             s == IF d < 0 THEN -1 ELSE 1
         IN  <<(s * n) \div g, (s * d) \div g>>

RInt(n) == <<n, 1>>

RAdd(a, b) ==
    IF IsNaN(a) \/ IsNaN(b) THEN NaN
    ELSE Rat(a[1] * b[2] + b[1] * a[2], a[2] * b[2])

RSub(a, b) ==
    IF IsNaN(a) \/ IsNaN(b) THEN NaN
    ELSE Rat(a[1] * b[2] - b[1] * a[2], a[2] * b[2])

RMul(a, b) ==
    IF IsNaN(a) \/ IsNaN(b) THEN NaN ELSE Rat(a[1] * b[1], a[2] * b[2])

\* a / b for b # 0
RDiv(a, b) ==
    IF IsNaN(a) \/ IsNaN(b) THEN NaN ELSE Rat(a[1] * b[2], a[2] * b[1])

\* a < b; every comparison with NaN is false
RLess(a, b) ==
    /\ ~IsNaN(a)
    /\ ~IsNaN(b)
    /\ a[1] * b[2] < b[1] * a[2]

RLeq(a, b) ==
    /\ ~IsNaN(a)
    /\ ~IsNaN(b)
    /\ a[1] * b[2] <= b[1] * a[2]

\* ---------------------------------------------------------------- RSI

\* prices.diff(): the first element has no predecessor and is NaN
Diff(prices) ==
    [k \in 1..Len(prices) |->
        IF k = 1 THEN NaN ELSE RSub(prices[k], prices[k - 1])]

\* Mutant: every difference counts as a gain (abs() in place of the clip).
AbsDelta(delta) ==
    [k \in 1..Len(delta) |->
        IF IsNaN(delta[k]) THEN NaN
        ELSE IF RLess(delta[k], RInt(0)) THEN RSub(RInt(0), delta[k])
        ELSE delta[k]]

\* delta.clip(lower=0); NaN stays NaN
ClipLower0(delta) ==
    [k \in 1..Len(delta) |->
        IF IsNaN(delta[k]) THEN NaN
        ELSE IF RLess(delta[k], RInt(0)) THEN RInt(0) ELSE delta[k]]

\* Mutant: the losses keep their sign (delta.clip(upper=0), not negated).
ClipUpper0(delta) ==
    [k \in 1..Len(delta) |->
        IF IsNaN(delta[k]) THEN NaN
        ELSE IF RLess(RInt(0), delta[k]) THEN RInt(0) ELSE delta[k]]

\* -delta.clip(upper=0); NaN stays NaN
NegClipUpper0(delta) ==
    [k \in 1..Len(delta) |->
        IF IsNaN(delta[k]) THEN NaN
        ELSE IF RLess(RInt(0), delta[k]) THEN RInt(0)
        ELSE RSub(RInt(0), delta[k])]

RECURSIVE SumSeq(_)
SumSeq(s) == IF s = <<>> THEN RInt(0) ELSE RAdd(Head(s), SumSeq(Tail(s)))

\* Mutant: the mean divides by the length of the window, NaN included.
MeanOverWindow(s) ==
    LET vals == SelectSeq(s, LAMBDA v : ~IsNaN(v))
    IN  IF vals = <<>> THEN NaN ELSE RDiv(SumSeq(vals), RInt(Len(s)))

\* Series.mean(): the mean of the values that are not NaN, NaN when none is
Mean(s) ==
    LET vals == SelectSeq(s, LAMBDA v : ~IsNaN(v))
    IN  IF vals = <<>> THEN NaN ELSE RDiv(SumSeq(vals), RInt(Len(vals)))

\* s[:period]
Slice(s, period) ==
    SubSeq(s, 1, IF Len(s) < period THEN Len(s) ELSE period)

\* The loop of calculate_precise_rsi: avgs is the list gains (or losses) so
\* far, k the 1-based position of the next element of the series.
RECURSIVE EmaLoop(_, _, _, _)
EmaLoop(avgs, series, k, period) ==
    IF k > Len(series) THEN avgs
    ELSE LET alpha == Rat(1, period)
             avg == RAdd(RMul(series[k], alpha),
                         RMul(avgs[Len(avgs)], RSub(RInt(1), alpha)))
         IN  EmaLoop(Append(avgs, avg), series, k + 1, period)

\* np.divide(gains, losses, out=zeros, where=losses != 0): 0 where the
\* divisor is 0 (NaN != 0 is true, so a NaN divisor divides)
DivideOrZero(g, l) ==
    IF ~IsNaN(l) /\ l[1] = 0 THEN RInt(0) ELSE RDiv(g, l)

\* 100 - (100 / (1 + rs)); 1 + rs is never 0 because rs >= 0
RsiOfRs(rs) ==
    RSub(RInt(100), RDiv(RInt(100), RAdd(RInt(1), rs)))

calculate_precise_rsi(prices, period) ==
    LET delta == Diff(prices)
        gain == ClipLower0(delta)
        loss == NegClipUpper0(delta)
        gains == EmaLoop(<<Mean(Slice(gain, period))>>, gain, period + 1, period)
        losses == EmaLoop(<<Mean(Slice(loss, period))>>, loss, period + 1, period)
        rs == [k \in 1..Len(gains) |-> DivideOrZero(gains[k], losses[k])]
        rsi == [k \in 1..Len(rs) |-> RsiOfRs(rs[k])]
    IN  rsi[Len(rsi)]

\* '{last_rsi:.2f}', '{current_price:.4f}': the value rounded to `places`
\* decimals, as the integer count of 10^-places units (values >= 0 only)
Pow10(places) == IF places = 2 THEN 100 ELSE 10000

FormatFixed(r, places) ==
    (2 * r[1] * Pow10(places) + r[2]) \div (2 * r[2])

\* ------------------------------------------------ the remote API, stubbed

Sym_AUSDT == <<"A", "U", "S", "D", "T">>
Sym_BUSDT == <<"B", "U", "S", "D", "T">>
Sym_CUSDT == <<"C", "U", "S", "D", "T">>
Sym_USDTA == <<"U", "S", "D", "T", "A">>

\* The symbol records an exchangeInfo response may hold.
ListingRecords ==
    { [symbol |-> Sym_AUSDT, status |-> "TRADING"],
      [symbol |-> Sym_BUSDT, status |-> "TRADING"],
      [symbol |-> Sym_CUSDT, status |-> "BREAK"],
      [symbol |-> Sym_USDTA, status |-> "TRADING"] }

SeqsUpTo(S, n) == UNION { [1..k -> S] : k \in 0..n }

ListingResponses == SeqsUpTo(ListingRecords, MaxSymbols)

\* A kline is a list whose element 4 (0-based) is the close.
Kline(close) == <<0, close, close, close, close>>

Klines(closes) == [k \in 1..Len(closes) |-> Kline(closes[k])]

Decreasing(n) == [k \in 1..n |-> 101 - k]
Increasing(n) == [k \in 1..n |-> 99 + k]
\* gains sum to 3 and losses to 7 over the 13 differences: RSI is exactly 30
AtThreshold == <<100, 103, 96>> \o [k \in 1..11 |-> 96]

\* The bodies a 200 klines response may hold.
KlineResponses ==
    { <<>>,
      Klines(Decreasing(RSI_PERIOD - 1)),
      Klines(Decreasing(RSI_PERIOD)),
      Klines(Decreasing(20)),
      Klines(Increasing(RSI_PERIOD + 1)),
      Klines(AtThreshold) }

\* The price a 200 ticker response may hold.
SpotPrices == {25}

\* Values of the SYMBOL environment variable; <<>> is unset (default "").
EnvSymbols == { <<>>, <<" ">>, <<" ", "a", "u", "s", "d", "t">> }

\* Lines a coins.txt present at start may hold, each with the symbol it
\* stores: one as get_usdt_pairs writes it, one padded with blanks.
CacheEntries ==
    { [symbol |-> Sym_AUSDT, line |-> Sym_AUSDT \o <<NL>>],
      [symbol |-> Sym_BUSDT, line |-> <<" ">> \o Sym_BUSDT \o <<" ", NL>>] }

RECURSIVE Flatten(_)
Flatten(ss) == IF ss = <<>> THEN <<>> ELSE Head(ss) \o Flatten(Tail(ss))

\* The text of a coins.txt holding the entries es.
CacheText(es) == Flatten([k \in 1..Len(es) |-> es[k].line])

CacheTexts == { CacheText(es) : es \in SeqsUpTo(CacheEntries, MaxSymbols) }

\* ------------------------------------------------------------- state

VARIABLES
    env_SYMBOL,     \* os.getenv("SYMBOL", "")
    coins_file,     \* COINS_FILE: [exists, text]
    max_workers,    \* capacity of the ThreadPoolExecutor
    main_pc,        \* position of the main thread in find_low_rsi_coins
    symbols,        \* the symbols handed to process_symbol, in order
    exists_result,  \* what os.path.exists(COINS_FILE) answered
    listing_calls,  \* requests to SYMBOLS_ENDPOINT
    listing_res,    \* outcome of the listing request
    listing_data,   \* data['symbols'] of a 200 listing response, until dispatch
    coins_writes,   \* times COINS_FILE was opened for writing
    pc,             \* per symbol: position of its process_symbol call
    msg,            \* per symbol: the message its print_flush call carries
    data,           \* per symbol: response.json() of the klines request
    last_rsi,       \* per symbol: last_rsi of process_symbol
    current_price,  \* per symbol: current_price of process_symbol
    series_calls,   \* per symbol: requests to KLINES_ENDPOINT
    price_calls,    \* per symbol: requests to PRICE_ENDPOINT
    series_res,     \* per symbol: outcome of the klines request
    price_res,      \* per symbol: outcome of the price request
    stdout,         \* lines written, per caller (0: find_low_rsi_coins)
    print_lock,     \* holder of print_lock, 0 when free
    call_prices,    \* calculate_precise_rsi called on its own: prices
    call_period,    \* calculate_precise_rsi called on its own: period
    call_result     \* calculate_precise_rsi called on its own: value returned

main_vars ==
    <<env_SYMBOL, coins_file, max_workers, main_pc, symbols, exists_result,
      listing_calls, listing_res, listing_data, coins_writes>>

task_vars ==
    <<pc, msg, data, last_rsi, current_price, series_calls, price_calls,
      series_res, price_res>>

call_vars == <<call_prices, call_period, call_result>>

vars == <<main_vars, task_vars, stdout, print_lock, call_vars>>

scan_vars == <<task_vars, stdout, print_lock>>

Tasks == 1..Len(pc)

NoFile == [exists |-> FALSE, text |-> <<>>]

File(text) == [exists |-> TRUE, text |-> text]

Line(kind, symbol, rsi, price) ==
    [kind |-> kind, symbol |-> symbol, rsi |-> rsi, price |-> price]

\* print_flush called by find_low_rsi_coins / get_usdt_pairs before any
\* worker exists: the lock is free, taken and released within the step
MainPrint(kinds) ==
    stdout' = [stdout EXCEPT ![0] = @ \o [k \in 1..Len(kinds) |->
                                            Line(kinds[k], <<>>, None, None)]]

Init ==
    /\ env_SYMBOL \in EnvSymbols
    /\ coins_file \in {NoFile} \cup { File(t) : t \in CacheTexts }
    /\ max_workers \in 1..MaxCapacity
    /\ main_pc = "start"
    /\ symbols = <<>>
    /\ exists_result = "unchecked"
    /\ listing_calls = 0
    /\ listing_res = "none"
    /\ listing_data = <<>>
    /\ coins_writes = 0
    /\ pc = <<>>
    /\ msg = <<>>
    /\ data = <<>>
    /\ last_rsi = <<>>
    /\ current_price = <<>>
    /\ series_calls = <<>>
    /\ price_calls = <<>>
    /\ series_res = <<>>
    /\ price_res = <<>>
    /\ stdout = [t \in {0} |-> <<>>]
    /\ print_lock = 0
    /\ call_prices = <<>>
    /\ call_period = RSI_PERIOD
    /\ call_result = None

\* ------------------------------------------------------- main thread

\* The per-symbol state of the calls process_symbol(s) for s in syms, none
\* started yet; stdout gets a column per caller.
Submit(syms) ==
    /\ symbols' = syms
    /\ pc' = [k \in 1..Len(syms) |-> "pending"]
    /\ msg' = [k \in 1..Len(syms) |-> ""]
    /\ data' = [k \in 1..Len(syms) |-> <<>>]
    /\ last_rsi' = [k \in 1..Len(syms) |-> None]
    /\ current_price' = [k \in 1..Len(syms) |-> None]
    /\ series_calls' = [k \in 1..Len(syms) |-> 0]
    /\ price_calls' = [k \in 1..Len(syms) |-> 0]
    /\ series_res' = [k \in 1..Len(syms) |-> "none"]
    /\ price_res' = [k \in 1..Len(syms) |-> "none"]

\* stdout after find_low_rsi_coins printed `kinds`, with an empty column
\* for each of n callers of process_symbol
Columns(kinds, n) ==
    [t \in 0..n |->
        IF t = 0
        THEN stdout[0] \o [k \in 1..Len(kinds) |-> Line(kinds[k], <<>>, None, None)]
        ELSE <<>>]

\* target_coin = os.getenv("SYMBOL", "").strip().upper()
TargetCoin(env) == Upper(Strip(env))

\* Mutant: SYMBOL is ignored and the whole universe is scanned.
FindLowRsiCoinsNoOverride ==
    /\ main_pc = "start"
    /\ MainPrint(<<"querying_all">>)
    /\ main_pc' = "get_usdt_pairs"
    /\ UNCHANGED <<call_vars, env_SYMBOL, coins_file, max_workers, symbols, exists_result,
                   listing_calls, listing_res, listing_data, coins_writes,
                   task_vars, print_lock>>

\* find_low_rsi_coins, up to the call of process_symbol or get_usdt_pairs
FindLowRsiCoins ==
    /\ main_pc = "start"
    /\ LET target_coin == TargetCoin(env_SYMBOL)
       IN  IF target_coin # <<>>
           THEN /\ stdout' = Columns(<<"querying_single">>, 1)
                /\ Submit(<<target_coin>>)
                /\ main_pc' = "single_call"
           ELSE /\ MainPrint(<<"querying_all">>)
                /\ main_pc' = "get_usdt_pairs"
                /\ UNCHANGED <<symbols, task_vars>>
    /\ UNCHANGED <<call_vars, env_SYMBOL, coins_file, max_workers, exists_result,
                   listing_calls, listing_res, listing_data, coins_writes,
                   print_lock>>

\* Mutant: the existence check always answers no.
CoinsFileNeverExists == FALSE

\* if os.path.exists(COINS_FILE)
CoinsFileExists == coins_file.exists

\* get_usdt_pairs when COINS_FILE exists: read it and return its lines
GetUsdtPairsCached ==
    /\ main_pc = "get_usdt_pairs"
    /\ CoinsFileExists
    /\ exists_result' = "found"
    /\ MainPrint(<<"coins_file_found">>)
    /\ symbols' = ReadCoinsFile(coins_file.text)
    /\ main_pc' = "dispatch"
    /\ UNCHANGED <<call_vars, env_SYMBOL, coins_file, max_workers, listing_calls,
                   listing_res, listing_data, coins_writes, task_vars,
                   print_lock>>

\* get_usdt_pairs when COINS_FILE is absent: requests.get(SYMBOLS_ENDPOINT)
GetUsdtPairsRequest ==
    /\ main_pc = "get_usdt_pairs"
    /\ ~CoinsFileExists
    /\ exists_result' = "absent"
    /\ MainPrint(<<"fetching_pairs">>)
    /\ listing_calls' = listing_calls + 1
    /\ main_pc' = "listing_request"
    /\ UNCHANGED <<call_vars, env_SYMBOL, coins_file, max_workers, symbols, listing_res,
                   listing_data, coins_writes, task_vars, print_lock>>

\* Mutant: the trading-status test is left out.
IsUsdtAnyStatus(rec) == EndsWith(rec.symbol, Str_USDT)

\* symbol['symbol'].endswith("USDT") and symbol['status'] == 'TRADING'
IsUsdtTrading(rec) ==
    /\ EndsWith(rec.symbol, Str_USDT)
    /\ rec.status = "TRADING"

\* [symbol['symbol'] for symbol in data['symbols'] if ...]
RECURSIVE UsdtPairs(_)
UsdtPairs(recs) ==
    IF recs = <<>> THEN <<>>
    ELSE IF IsUsdtTrading(Head(recs))
         THEN <<Head(recs).symbol>> \o UsdtPairs(Tail(recs))
         ELSE UsdtPairs(Tail(recs))

\* requests.get raised: nothing in get_usdt_pairs or find_low_rsi_coins
\* catches it, and it leaves find_low_rsi_coins
ListingRaised ==
    /\ main_pc = "listing_request"
    /\ listing_res' = "raise"
    /\ main_pc' = "raised"
    /\ UNCHANGED <<call_vars, env_SYMBOL, coins_file, max_workers, symbols,
                   exists_result, listing_calls, listing_data, coins_writes,
                   task_vars, stdout, print_lock>>

\* response.status_code != 200: diagnostic, return []
ListingHttpError ==
    /\ main_pc = "listing_request"
    /\ listing_res' = "http_error"
    /\ MainPrint(<<"failed_pairs">>)
    /\ symbols' = <<>>
    /\ main_pc' = "dispatch"
    /\ UNCHANGED <<call_vars, env_SYMBOL, coins_file, max_workers, exists_result,
                   listing_calls, listing_data, coins_writes, task_vars,
                   print_lock>>

\* response.status_code == 200: filter, print the count, write COINS_FILE,
\* return the pairs
ListingOk ==
    /\ main_pc = "listing_request"
    /\ \E recs \in ListingResponses :
          /\ listing_res' = "ok"
          /\ listing_data' = recs
          /\ MainPrint(<<"pairs_found">>)
          /\ coins_file' = File(WriteLines(UsdtPairs(recs)))
          /\ coins_writes' = coins_writes + 1
          /\ symbols' = UsdtPairs(recs)
    /\ main_pc' = "dispatch"
    /\ UNCHANGED <<call_vars, env_SYMBOL, max_workers, exists_result, listing_calls,
                   task_vars, print_lock>>

\* with ThreadPoolExecutor(max_workers=MAX_WORKERS) as executor:
\*     executor.map(process_symbol, symbols)
\* map submits every symbol; the work queue is first-in first-out.  A work
\* item not yet submitted and one queued are both "pending".  The listing
\* response, a local of get_usdt_pairs, is gone by now.
ExecutorMap ==
    /\ main_pc = "dispatch"
    /\ Submit(symbols)
    /\ stdout' = Columns(<<>>, Len(symbols))
    /\ listing_data' = <<>>
    /\ main_pc' = "pool_wait"
    /\ UNCHANGED <<call_vars, env_SYMBOL, coins_file, max_workers, exists_result,
                   listing_calls, listing_res, coins_writes, print_lock>>

\* Every submitted call of process_symbol has returned.
AllTerminal == \A i \in Tasks : pc[i] \in {"reported", "discarded", "failed"}

\* Mutant: the executor is left without waiting (shutdown(wait=False)).
PoolShutdownNoWait ==
    /\ main_pc = "pool_wait"
    /\ main_pc' = "returned"
    /\ UNCHANGED <<call_vars, env_SYMBOL, coins_file, max_workers, symbols,
                   exists_result, listing_calls, listing_res, listing_data,
                   coins_writes, task_vars, stdout, print_lock>>

\* Leaving the with block: executor.shutdown(wait=True), then return
PoolShutdown ==
    /\ main_pc = "pool_wait"
    /\ AllTerminal
    /\ main_pc' = "returned"
    /\ UNCHANGED <<call_vars, env_SYMBOL, coins_file, max_workers, symbols,
                   exists_result, listing_calls, listing_res, listing_data,
                   coins_writes, task_vars, stdout, print_lock>>

\* process_symbol(target_coin) returned to find_low_rsi_coins
SingleReturn ==
    /\ main_pc = "single_call"
    /\ AllTerminal
    /\ main_pc' = "returned"
    /\ UNCHANGED <<call_vars, env_SYMBOL, coins_file, max_workers, symbols,
                   exists_result, listing_calls, listing_res, listing_data,
                   coins_writes, task_vars, stdout, print_lock>>

\* ------------------------------------------------------ process_symbol

\* Calls of process_symbol started and not yet returned.
InFlight == { i \in Tasks : pc[i] \notin {"pending", "reported", "discarded", "failed"} }

\* Mutant: a thread per work item, whatever max_workers is.
WorkerFreeUnbounded(i) == \A j \in 1..(i - 1) : pc[j] # "pending"

\* A pool worker takes the next work item: at most max_workers threads
\* exist, each runs one item at a time, items leave the queue in order.
WorkerFree(i) ==
    /\ Cardinality(InFlight) < max_workers
    /\ \A j \in 1..(i - 1) : pc[j] # "pending"

\* process_symbol(symbol) begins: requests.get(KLINES_ENDPOINT, ...)
StartSymbol(i) ==
    /\ pc[i] = "pending"
    /\ \/ main_pc = "single_call"
       \/ main_pc = "pool_wait" /\ WorkerFree(i)
    /\ pc' = [pc EXCEPT ![i] = "fetching_series"]
    /\ series_calls' = [series_calls EXCEPT ![i] = @ + 1]
    /\ UNCHANGED <<call_vars, main_vars, msg, data, last_rsi, current_price, price_calls,
                   series_res, price_res, stdout, print_lock>>

\* print_flush(message) is entered: the caller waits for print_lock
CallPrint(i, kind) ==
    /\ pc' = [pc EXCEPT ![i] = "print_wait"]
    /\ msg' = [msg EXCEPT ![i] = kind]

\* Mutant: a klines request that raised is sent again.
SeriesRaisedRetry(i) ==
    /\ pc[i] = "fetching_series"
    /\ series_res' = [series_res EXCEPT ![i] = "raise"]
    /\ series_calls' = [series_calls EXCEPT ![i] = @ + 1]
    /\ UNCHANGED <<call_vars, main_vars, pc, msg, data, last_rsi, current_price,
                   price_calls, price_res, stdout, print_lock>>

\* requests.get(KLINES_ENDPOINT) raised: process_symbol's except prints
SeriesRaised(i) ==
    /\ pc[i] = "fetching_series"
    /\ series_res' = [series_res EXCEPT ![i] = "raise"]
    /\ CallPrint(i, "error")
    /\ UNCHANGED <<call_vars, main_vars, data, last_rsi, current_price, series_calls,
                   price_calls, price_res, stdout, print_lock>>

\* Mutant: a non-200 klines response yields an RSI of 0 instead of None.
SeriesHttpErrorAsZero(i) ==
    /\ pc[i] = "fetching_series"
    /\ series_res' = [series_res EXCEPT ![i] = "http_error"]
    /\ last_rsi' = [last_rsi EXCEPT ![i] = RInt(0)]
    /\ pc' = [pc EXCEPT ![i] = "fetching_price"]
    /\ price_calls' = [price_calls EXCEPT ![i] = @ + 1]
    /\ UNCHANGED <<call_vars, main_vars, msg, data, current_price, series_calls,
                   price_res, stdout, print_lock>>

\* status_code != 200: "Failed to fetch data", return None
SeriesHttpError(i) ==
    /\ pc[i] = "fetching_series"
    /\ series_res' = [series_res EXCEPT ![i] = "http_error"]
    /\ CallPrint(i, "failed_data")
    /\ UNCHANGED <<call_vars, main_vars, data, last_rsi, current_price, series_calls,
                   price_calls, price_res, stdout, print_lock>>

\* if not data or len(data) < RSI_PERIOD
NotEnoughData(klines) == klines = <<>> \/ Len(klines) < RSI_PERIOD

\* status_code == 200: "Not enough data" and return None, or go on to
\* calculate_precise_rsi
SeriesOk(i) ==
    /\ pc[i] = "fetching_series"
    /\ series_res' = [series_res EXCEPT ![i] = "ok"]
    /\ \E klines \in KlineResponses :
          IF NotEnoughData(klines)
          THEN /\ CallPrint(i, "not_enough")
               /\ UNCHANGED data
          ELSE /\ pc' = [pc EXCEPT ![i] = "computing"]
               /\ data' = [data EXCEPT ![i] = klines]
               /\ UNCHANGED msg
    /\ UNCHANGED <<call_vars, main_vars, last_rsi, current_price, series_calls,
                   price_calls, price_res, stdout, print_lock>>

\* pd.Series([float(kline[4]) for kline in data])
ClosePrices(klines) == [k \in 1..Len(klines) |-> RInt(klines[k][5])]

\* calculate_precise_rsi(close_prices) of each klines body the stub may
\* return, evaluated once
RsiOfResponse ==
    [klines \in KlineResponses |->
        calculate_precise_rsi(ClosePrices(klines), RSI_PERIOD)]

\* Mutant: the comparison with the threshold is not strict.
BelowThresholdLeq(rsi) == rsi # None /\ RLeq(rsi, RInt(RSI_THRESHOLD))

\* if last_rsi is not None and last_rsi < RSI_THRESHOLD
BelowThreshold(rsi) == rsi # None /\ RLess(rsi, RInt(RSI_THRESHOLD))

\* last_rsi = calculate_precise_rsi(close_prices); below the threshold the
\* price is requested, otherwise process_symbol returns
ComputeRsi(i) ==
    /\ pc[i] = "computing"
    /\ LET rsi == RsiOfResponse[data[i]]
       IN  /\ last_rsi' = [last_rsi EXCEPT ![i] = rsi]
           /\ IF BelowThreshold(rsi)
              THEN /\ pc' = [pc EXCEPT ![i] = "fetching_price"]
                   /\ price_calls' = [price_calls EXCEPT ![i] = @ + 1]
              ELSE /\ pc' = [pc EXCEPT ![i] = "discarded"]
                   /\ UNCHANGED price_calls
    /\ data' = [data EXCEPT ![i] = <<>>]
    /\ UNCHANGED <<call_vars, main_vars, msg, current_price, series_calls, series_res,
                   price_res, stdout, print_lock>>

\* requests.get(PRICE_ENDPOINT) raised: process_symbol's except prints
PriceRaised(i) ==
    /\ pc[i] = "fetching_price"
    /\ price_res' = [price_res EXCEPT ![i] = "raise"]
    /\ CallPrint(i, "error")
    /\ UNCHANGED <<call_vars, main_vars, data, last_rsi, current_price, series_calls,
                   price_calls, series_res, stdout, print_lock>>

\* status_code != 200: "Failed to fetch current price", return None
PriceHttpError(i) ==
    /\ pc[i] = "fetching_price"
    /\ price_res' = [price_res EXCEPT ![i] = "http_error"]
    /\ CallPrint(i, "failed_price")
    /\ UNCHANGED <<call_vars, main_vars, data, last_rsi, current_price, series_calls,
                   price_calls, series_res, stdout, print_lock>>

\* status_code == 200: current_price = float(data['price']); the match
\* line is formatted and print_flush called
PriceOk(i) ==
    /\ pc[i] = "fetching_price"
    /\ price_res' = [price_res EXCEPT ![i] = "ok"]
    /\ \E price \in SpotPrices :
          current_price' = [current_price EXCEPT ![i] = RInt(price)]
    /\ CallPrint(i, "match")
    /\ UNCHANGED <<call_vars, main_vars, data, last_rsi, series_calls, price_calls,
                   series_res, stdout, print_lock>>

\* ----------------------------------------------------------- print_flush

\* Mutant: print_flush writes without taking the lock.
LockAlwaysFree == TRUE

\* with print_lock: the lock is taken only when free
LockFree == print_lock = 0

PrintAcquire(i) ==
    /\ pc[i] = "print_wait"
    /\ LockFree
    /\ print_lock' = i
    /\ pc' = [pc EXCEPT ![i] = "print_write"]
    /\ UNCHANGED <<call_vars, main_vars, msg, data, last_rsi, current_price,
                   series_calls, price_calls, series_res, price_res, stdout>>

\* The line a message kind stands for.
LineOf(i, kind) ==
    IF kind = "match"
    THEN Line(kind, symbols[i], FormatFixed(last_rsi[i], 2),
              FormatFixed(current_price[i], 4))
    ELSE Line(kind, symbols[i], None, None)

\* Where process_symbol goes once print_flush(kind) has returned:
\* get_current_price returned None after "failed_price", and formatting
\* '{current_price:.4f}' raises TypeError, which the except prints.
AfterPrint(kind) ==
    CASE kind = "match" -> "reported"
      [] kind = "failed_price" -> "print_wait"
      [] OTHER -> "failed"

\* print(message); sys.stdout.flush(); the lock is released
PrintWrite(i) ==
    /\ pc[i] = "print_write"
    /\ stdout' = [stdout EXCEPT ![i] = Append(@, LineOf(i, msg[i]))]
    /\ print_lock' = 0
    /\ pc' = [pc EXCEPT ![i] = AfterPrint(msg[i])]
    /\ msg' = [msg EXCEPT ![i] = IF msg[i] = "failed_price" THEN "error" ELSE ""]
    /\ UNCHANGED <<call_vars, main_vars, data, last_rsi, current_price, series_calls,
                   price_calls, series_res, price_res>>

\* ------------------------------------------------------- specification

Next ==
    \/ FindLowRsiCoins
    \/ GetUsdtPairsCached
    \/ GetUsdtPairsRequest
    \/ ListingRaised
    \/ ListingHttpError
    \/ ListingOk
    \/ ExecutorMap
    \/ PoolShutdown
    \/ SingleReturn
    \/ \E i \in Tasks : StartSymbol(i)
    \/ \E i \in Tasks : SeriesRaised(i)
    \/ \E i \in Tasks : SeriesHttpError(i)
    \/ \E i \in Tasks : SeriesOk(i)
    \/ \E i \in Tasks : ComputeRsi(i)
    \/ \E i \in Tasks : PriceRaised(i)
    \/ \E i \in Tasks : PriceHttpError(i)
    \/ \E i \in Tasks : PriceOk(i)
    \/ \E i \in Tasks : PrintAcquire(i)
    \/ \E i \in Tasks : PrintWrite(i)

Spec == Init /\ [][Next]_vars

\* The steps of the thread running process_symbol for the i-th symbol.
SymbolStep(i) ==
    /\ i \in Tasks
    /\ \/ StartSymbol(i)
       \/ SeriesRaised(i)
       \/ SeriesHttpError(i)
       \/ SeriesOk(i)
       \/ ComputeRsi(i)
       \/ PriceRaised(i)
       \/ PriceHttpError(i)
       \/ PriceOk(i)
       \/ PrintAcquire(i)
       \/ PrintWrite(i)

\* The steps of the main thread.
MainStep ==
    \/ FindLowRsiCoins
    \/ GetUsdtPairsCached
    \/ GetUsdtPairsRequest
    \/ ListingRaised
    \/ ListingHttpError
    \/ ListingOk
    \/ ExecutorMap
    \/ PoolShutdown
    \/ SingleReturn

\* Every thread that can run keeps being scheduled, and every remote call
\* returns (with a response or an exception).
FairSpec ==
    /\ Spec
    /\ WF_vars(MainStep)
    /\ \A i \in 1..MaxSymbols : WF_vars(SymbolStep(i))

\* --------------------------------------- a remote call that never returns

\* requests.get is called without a timeout: when the server accepts the
\* request and never answers, the call blocks for good, and with it the
\* thread running process_symbol.
RequestHangs(i) ==
    /\ pc[i] \in {"fetching_series", "fetching_price"}
    /\ pc' = [pc EXCEPT ![i] = "blocked"]
    /\ UNCHANGED <<call_vars, main_vars, msg, data, last_rsi, current_price,
                   series_calls, price_calls, series_res, price_res, stdout,
                   print_lock>>

HangNext ==
    \/ Next
    \/ \E i \in Tasks : RequestHangs(i)

\* The scan when a remote call need not return.
HangSpec == Init /\ [][HangNext]_vars

\* ------------------------------------------- a write to stdout that fails

\* Mutant: the lock stays with the caller whose write raised.
PrintWriteFailsKeepsLock(i) ==
    /\ pc[i] = "print_write"
    /\ IF msg[i] = "error"
       THEN /\ pc' = [pc EXCEPT ![i] = "failed"]
            /\ msg' = [msg EXCEPT ![i] = ""]
            /\ main_pc' = IF main_pc = "single_call" THEN "raised" ELSE main_pc
       ELSE /\ CallPrint(i, "error")
            /\ UNCHANGED main_pc
    /\ UNCHANGED <<call_vars, env_SYMBOL, coins_file, max_workers, symbols,
                   exists_result, listing_calls, listing_res, listing_data,
                   coins_writes, data, last_rsi, current_price, series_calls,
                   price_calls, series_res, price_res, stdout, print_lock>>

\* print() or sys.stdout.flush() raises inside `with print_lock:`: the with
\* statement releases the lock and the exception leaves print_flush.  In
\* the try block of process_symbol it is caught and the except prints; in
\* the except itself it leaves process_symbol: the pool keeps it in the
\* future nobody reads, the direct call passes it to find_low_rsi_coins.
PrintWriteFails(i) ==
    /\ pc[i] = "print_write"
    /\ print_lock' = 0
    /\ IF msg[i] = "error"
       THEN /\ pc' = [pc EXCEPT ![i] = "failed"]
            /\ msg' = [msg EXCEPT ![i] = ""]
            /\ main_pc' = IF main_pc = "single_call" THEN "raised" ELSE main_pc
       ELSE /\ CallPrint(i, "error")
            /\ UNCHANGED main_pc
    /\ UNCHANGED <<call_vars, env_SYMBOL, coins_file, max_workers, symbols,
                   exists_result, listing_calls, listing_res, listing_data,
                   coins_writes, data, last_rsi, current_price, series_calls,
                   price_calls, series_res, price_res, stdout>>

\* A print_flush of find_low_rsi_coins or get_usdt_pairs raises: the lock
\* is released and nothing catches the exception.
MainPrintFails ==
    /\ main_pc \in {"start", "get_usdt_pairs", "listing_request"}
    /\ main_pc' = "raised"
    /\ UNCHANGED <<call_vars, env_SYMBOL, coins_file, max_workers, symbols,
                   exists_result, listing_calls, listing_res, listing_data,
                   coins_writes, task_vars, stdout, print_lock>>

IoNext ==
    \/ Next
    \/ MainPrintFails
    \/ \E i \in Tasks : PrintWriteFails(i)

\* The scan when a write to stdout may fail.
IoSpec == Init /\ [][IoNext]_vars

\* The steps of the thread running process_symbol for the i-th symbol.
SymbolIoStep(i) ==
    /\ i \in Tasks
    /\ \/ SymbolStep(i)
       \/ PrintWriteFails(i)

\* Every thread that can run keeps being scheduled, every remote call
\* returns, and a write either succeeds or raises.
IoFairSpec ==
    /\ IoSpec
    /\ WF_vars(MainStep \/ MainPrintFails)
    /\ \A i \in 1..MaxSymbols : WF_vars(SymbolIoStep(i))

\* ------------------------------- calculate_precise_rsi called on its own

\* Periods the function is called with: two short ones, for which every
\* series over 0..MaxPrice is tried, and the one the program uses.
ShortPeriods == {2, 3}

Periods == ShortPeriods \cup {RSI_PERIOD}

Flat(n) == [k \in 1..n |-> 100]
ZigZag(n) == [k \in 1..n |-> IF k % 2 = 1 THEN 100 ELSE 100 + k]

\* The closes tried with a period.
SeriesFor(p) ==
    IF p \in ShortPeriods
    THEN UNION { [1..n -> 0..MaxPrice] : n \in 1..(p + MaxExtra) }
    ELSE UNION { {Decreasing(n), Increasing(n), Flat(n), ZigZag(n)} :
                    n \in (p - 1)..(p + MaxExtra) }

\* pd.Series of float closes
ToSeries(closes) == [k \in 1..Len(closes) |-> RInt(closes[k])]

\* No scan is running; a caller is about to call
\* calculate_precise_rsi(prices, period).
RsiInit ==
    /\ call_period \in Periods
    /\ call_prices \in SeriesFor(call_period)
    /\ call_result = None
    /\ env_SYMBOL = <<>>
    /\ coins_file = NoFile
    /\ max_workers = 1
    /\ main_pc = "none"
    /\ symbols = <<>>
    /\ exists_result = "unchecked"
    /\ listing_calls = 0
    /\ listing_res = "none"
    /\ listing_data = <<>>
    /\ coins_writes = 0
    /\ pc = <<>>
    /\ msg = <<>>
    /\ data = <<>>
    /\ last_rsi = <<>>
    /\ current_price = <<>>
    /\ series_calls = <<>>
    /\ price_calls = <<>>
    /\ series_res = <<>>
    /\ price_res = <<>>
    /\ stdout = [t \in {0} |-> <<>>]
    /\ print_lock = 0

\* The call returns rsi[-1].
CalculatePreciseRsi ==
    /\ main_pc = "none"
    /\ call_result = None
    /\ call_result' = calculate_precise_rsi(ToSeries(call_prices), call_period)
    /\ UNCHANGED <<main_vars, task_vars, stdout, print_lock, call_prices,
                   call_period>>

RsiNext == CalculatePreciseRsi

RsiSpec == RsiInit /\ [][RsiNext]_vars

\* ------------------------------------------------------------- claims

TerminalPcs == {"reported", "discarded", "failed"}

RunningPcs ==
    {"fetching_series", "computing", "fetching_price", "print_wait", "print_write"}

\* The match lines the call for the i-th symbol wrote.
MatchLinesOf(i) == SelectSeq(stdout[i], LAMBDA l : l.kind = "match")

\* An indicator value strictly below the threshold.
IsBelow(r) ==
    IF r = None THEN FALSE ELSE r[2] > 0 /\ r[1] < RSI_THRESHOLD * r[2]

FailedOutcomes == {"raise", "http_error"}

\* C1: when every klines request and every price request answered 200, a
\* returned scan has written exactly one match line, carrying the symbol,
\* for each dispatched symbol whose RSI is below the threshold and none for
\* any other, whatever the pool capacity and the interleaving.
C1_ExactlyOneLinePerMatch ==
    ( /\ main_pc = "returned"
      /\ \A i \in Tasks : series_res[i] = "ok" /\ price_res[i] \in {"none", "ok"} )
    => \A i \in Tasks :
          /\ Len(MatchLinesOf(i)) = IF IsBelow(last_rsi[i]) THEN 1 ELSE 0
          /\ \A k \in 1..Len(MatchLinesOf(i)) :
                MatchLinesOf(i)[k].symbol = symbols[i]

C1_Witness ==
    /\ main_pc = "returned"
    /\ max_workers = 1
    /\ Len(pc) = 2
    /\ pc[1] = "discarded" /\ last_rsi[1] = RInt(RSI_THRESHOLD)
    /\ pc[2] = "reported" /\ Len(stdout[2]) = 1
    /\ \A i \in Tasks : series_res[i] = "ok"

\* Some call of process_symbol can take a step.
PoolStep == \E k \in Tasks : SymbolStep(k)

\* C2: a symbol whose klines request failed (non-200 or exception) gets no
\* price request and no match line; the failure reaches neither the pool
\* nor find_low_rsi_coins, the failed call keeps neither the lock nor a
\* worker, the other symbols can still be processed while any is not
\* terminal, and the scan returns only with every symbol terminal.
C2_SeriesFailureContained ==
    /\ \A i \in Tasks :
          series_res[i] \in FailedOutcomes
          => /\ MatchLinesOf(i) = <<>>
             /\ price_calls[i] = 0
             /\ pc[i] \in {"print_wait", "print_write", "failed"}
             /\ pc[i] = "failed" => print_lock # i
    /\ (\E i \in Tasks : series_res[i] \in FailedOutcomes)
          => /\ main_pc \in {"single_call", "pool_wait", "returned"}
             /\ main_pc = "returned" => \A j \in Tasks : pc[j] \in TerminalPcs
             /\ (\E j \in Tasks : pc[j] \notin TerminalPcs) => ENABLED PoolStep

C2_Witness ==
    /\ main_pc = "returned"
    /\ Len(pc) = 2
    /\ series_res[1] = "http_error" /\ pc[1] = "failed"
    /\ series_res[2] = "ok" /\ pc[2] = "reported"

\* C3: a symbol below the threshold whose price request failed still gets
\* a match line.
C3_MatchReportedWhenPriceFails ==
    \A i \in Tasks :
        (pc[i] \in TerminalPcs /\ price_res[i] \in FailedOutcomes)
        => MatchLinesOf(i) # <<>>

\* C4: with no coins file, a listing request that fails by status or by
\* exception makes get_usdt_pairs return [] and no exception leaves
\* find_low_rsi_coins.
C4_ListingFailureNotFatal ==
    (exists_result = "absent" /\ listing_res \in FailedOutcomes)
    => (main_pc # "raised" /\ symbols = <<>>)

\* get_usdt_pairs has returned to find_low_rsi_coins.
Resolved ==
    \/ main_pc \in {"dispatch", "pool_wait"}
    \/ main_pc = "returned" /\ exists_result # "unchecked"

\* C5: while the coins file present at start is in place the listing
\* endpoint is never requested, and get_usdt_pairs returns the symbols the
\* file stores, in order.
C5_CacheHitSkipsListing ==
    (coins_file.exists /\ coins_writes = 0)
    => /\ listing_calls = 0
       /\ Resolved
          => \E es \in SeqsUpTo(CacheEntries, MaxSymbols) :
                /\ coins_file.text = CacheText(es)
                /\ symbols = [k \in 1..Len(es) |-> es[k].symbol]

C5_Witness ==
    /\ main_pc = "returned"
    /\ exists_result = "found"
    /\ listing_calls = 0
    /\ symbols = <<Sym_BUSDT, Sym_AUSDT>>
    /\ coins_file.text # WriteLines(symbols)

\* The symbols of the records with status TRADING whose name ends in USDT.
ExpectedPairs(recs) ==
    LET keep == SelectSeq(recs, LAMBDA r :
                    /\ r.status = "TRADING"
                    /\ Len(r.symbol) >= 4
                    /\ [k \in 1..4 |-> r.symbol[Len(r.symbol) - 4 + k]]
                          = <<"U", "S", "D", "T">>)
    IN  [k \in 1..Len(keep) |-> keep[k].symbol]

\* C6: with no coins file and a 200 listing response, the endpoint was
\* requested once, and the returned symbols and the written file are the
\* listed USDT pairs in trading, in listing order, one per line; the file
\* is written by the time get_usdt_pairs returns and on no other path.
C6_ListingFilteredAndPersisted ==
    /\ listing_calls <= 1
    /\ listing_res = "ok"
       => /\ exists_result = "absent"
          /\ listing_calls = 1
          /\ Resolved
          /\ main_pc = "dispatch" => symbols = ExpectedPairs(listing_data)
          /\ coins_file.exists
          /\ coins_file.text = Flatten([k \in 1..Len(symbols) |-> symbols[k] \o <<NL>>])
          /\ coins_writes = 1
    /\ listing_res # "ok" => coins_writes = 0
    /\ listing_res \in FailedOutcomes => ~coins_file.exists

C6_Witness ==
    /\ main_pc = "dispatch"
    /\ listing_res = "ok"
    /\ Len(listing_data) = 2
    /\ listing_data[1].status = "BREAK"
    /\ symbols = <<Sym_AUSDT>>
    /\ coins_file = File(Sym_AUSDT \o <<NL>>)

\* C7: the calls of process_symbol started and not yet returned never
\* outnumber the pool's max_workers.
C7_InFlightBounded ==
    Cardinality({ i \in Tasks : pc[i] \in RunningPcs }) <= max_workers

C7_Witness ==
    /\ max_workers = 1
    /\ Len(pc) = 2
    /\ pc[1] \in RunningPcs
    /\ pc[2] = "pending"

\* C8: at most one caller is inside the write-and-flush section of
\* print_flush, and it is the holder of print_lock.
C8_PrintMutualExclusion ==
    /\ Cardinality({ i \in Tasks : pc[i] = "print_write" }) <= 1
    /\ \A i \in Tasks : pc[i] = "print_write" => print_lock = i

C8_Witness ==
    /\ Len(pc) = 2
    /\ pc[1] = "print_write"
    /\ pc[2] = "print_wait"

\* C9: under fair scheduling the pass ends; once symbols are dispatched it
\* returns, never while a dispatched symbol is not terminal, and after the
\* pass ended no symbol is processed any further.
C9_ScanPassTerminates ==
    /\ <>(main_pc \in {"returned", "raised"})
    /\ (main_pc \in {"single_call", "pool_wait"}) ~> (main_pc = "returned")
    /\ [](main_pc = "returned" => \A i \in Tasks : pc[i] \in TerminalPcs)
    /\ [][(main_pc \in {"returned", "raised"}) => (scan_vars' = scan_vars)]_vars

C9_Witness ==
    /\ main_pc = "returned"
    /\ max_workers = 1
    /\ Len(pc) = 2
    /\ \A i \in Tasks : pc[i] \in TerminalPcs

\* C10: each symbol follows PENDING -> FETCHING_SERIES -> (FAILED |
\* COMPUTING) -> (BELOW_THRESHOLD -> FETCHING_PRICE -> REPORTED |
\* ABOVE_THRESHOLD -> DONE): FAILED is entered from FETCHING_SERIES only, a
\* symbol whose price was requested ends REPORTED, and the steps come in
\* the stated order.
C10_StateMachine ==
    \A i \in Tasks :
        /\ last_rsi[i] # None => series_res[i] = "ok"
        /\ price_calls[i] > 0 => IsBelow(last_rsi[i])
        /\ MatchLinesOf(i) # <<>> => price_res[i] = "ok"
        /\ (last_rsi[i] # None /\ ~IsBelow(last_rsi[i]))
              => (price_calls[i] = 0 /\ stdout[i] = <<>>)
        /\ pc[i] = "failed" => last_rsi[i] = None
        /\ (pc[i] \in TerminalPcs /\ price_calls[i] > 0) => pc[i] = "reported"

\* The ordering part of C10 alone: the RSI is computed only after a 200
\* klines response, the price is requested only for an RSI strictly below
\* the threshold, a match line follows a 200 price response, and an RSI at
\* or above the threshold causes no price request and no output.
C10_OrderingOnly ==
    \A i \in Tasks :
        /\ last_rsi[i] # None => series_res[i] = "ok"
        /\ price_calls[i] > 0 => IsBelow(last_rsi[i])
        /\ MatchLinesOf(i) # <<>> => price_res[i] = "ok"
        /\ (last_rsi[i] # None /\ ~IsBelow(last_rsi[i]))
              => (price_calls[i] = 0 /\ stdout[i] = <<>>)

\* SYMBOL names a symbol: it holds a character that is not blank.
OverrideConfigured == \E k \in 1..Len(env_SYMBOL) : env_SYMBOL[k] \notin {" ", NL}

\* C11: with a symbol configured in SYMBOL the existence of the coins file
\* is never checked, the file is neither read nor written, the listing
\* endpoint is never requested, no executor is entered, and exactly that
\* symbol (stripped, in upper case) is handed to one call of process_symbol,
\* which find_low_rsi_coins waits for and which requests the klines once.
C11_SingleSymbolOverride ==
    /\ [](OverrideConfigured
            => /\ exists_result = "unchecked"
               /\ listing_calls = 0
               /\ coins_writes = 0
               /\ main_pc \in {"start", "single_call", "returned"}
               /\ main_pc # "start"
                    => /\ Len(pc) = 1
                       /\ env_SYMBOL = <<" ", "a", "u", "s", "d", "t">>
                            => symbols = <<Sym_AUSDT>>
               /\ main_pc = "single_call" /\ pc[1] = "pending"
                    => ENABLED StartSymbol(1)
               /\ main_pc = "returned"
                    => pc[1] \in TerminalPcs /\ series_calls[1] = 1)
    /\ [][OverrideConfigured => coins_file' = coins_file]_vars

C11_Witness ==
    /\ OverrideConfigured
    /\ coins_file.exists
    /\ main_pc = "returned"
    /\ symbols = <<Sym_AUSDT>>
    /\ pc[1] = "reported"

\* C12: each call of process_symbol requests the klines exactly once, when
\* it starts, and the price at most once, whatever the requests answer: a
\* failed klines request is followed by no request at all, and a price
\* request that was answered or raised was the only one.
C12_SingleAttempt ==
    \A i \in Tasks :
        /\ series_calls[i] = IF pc[i] = "pending" THEN 0 ELSE 1
        /\ price_calls[i] \in {0, 1}
        /\ series_res[i] \in FailedOutcomes
              => series_calls[i] = 1 /\ price_calls[i] = 0
        /\ price_res[i] # "none" => price_calls[i] = 1
        /\ pc[i] \in TerminalPcs => series_calls[i] = 1

C12_Witness ==
    /\ main_pc = "returned"
    /\ Len(pc) = 2
    /\ series_res[1] = "http_error" /\ pc[1] = "failed" /\ series_calls[1] = 1
    /\ price_res[2] = "raise" /\ pc[2] = "failed" /\ price_calls[2] = 1

\* C13: a klines body of n <= RSI_PERIOD closes is rejected: it is never
\* handed to calculate_precise_rsi, so no indicator value and no match can
\* come of it, in particular for n = RSI_PERIOD.
C13_ShortSeriesRejected ==
    \A i \in Tasks :
        pc[i] = "computing" => Len(data[i]) > RSI_PERIOD

\* The call has returned for a series longer than the period.
ReturnedForLongSeries ==
    /\ call_result # None
    /\ Len(call_prices) > call_period

\* No close is lower than the one before it.
NoDecrease(closes) == \A k \in 2..Len(closes) : closes[k] >= closes[k - 1]

\* C14: for a series longer than the period in which no close is lower than
\* the one before, calculate_precise_rsi returns exactly 100.
C14_NoDecreaseGives100 ==
    (ReturnedForLongSeries /\ NoDecrease(call_prices))
    => call_result = <<100, 1>>

\* C15: for closes >= 0 and a series longer than the period the value
\* calculate_precise_rsi returns is a number r with 0 <= r <= 100.
C15_RsiInRange ==
    (ReturnedForLongSeries /\ \A k \in 1..Len(call_prices) : call_prices[k] >= 0)
    => /\ call_result[2] > 0
       /\ call_result[1] >= 0
       /\ call_result[1] <= 100 * call_result[2]

C15_Witness ==
    /\ ReturnedForLongSeries
    /\ call_period = RSI_PERIOD
    /\ Len(call_prices) = RSI_PERIOD + 2
    /\ call_result[1] > 0
    /\ call_result[1] < 100 * call_result[2]

\* The reference of C16, from its statement: the differences of consecutive
\* closes, one fewer than the closes.
RefDiffs(closes) ==
    [k \in 1..(Len(closes) - 1) |-> closes[k + 1] - closes[k]]

RefGains(closes) ==
    [k \in 1..(Len(closes) - 1) |->
        IF RefDiffs(closes)[k] > 0 THEN RefDiffs(closes)[k] ELSE 0]

RefLosses(closes) ==
    [k \in 1..(Len(closes) - 1) |->
        IF RefDiffs(closes)[k] < 0 THEN 0 - RefDiffs(closes)[k] ELSE 0]

RECURSIVE RefSum(_, _)
RefSum(vals, n) == IF n = 0 THEN 0 ELSE vals[n] + RefSum(vals, n - 1)

\* avg = value/period + avg*(period-1)/period for the values from k on
RECURSIVE RefFold(_, _, _, _)
RefFold(avg, vals, k, p) ==
    IF k > Len(vals) THEN avg
    ELSE RefFold(RAdd(Rat(vals[k], p), RMul(avg, Rat(p - 1, p))), vals, k + 1, p)

\* Seeded with the mean of the first p values, folded over the later ones.
RefAverage(vals, p) == RefFold(Rat(RefSum(vals, p), p), vals, p + 1, p)

\* 100 - 100/(1 + avgGain/avgLoss), with rs = 0 where avgLoss is 0 (step 4
\* of the indicator's definition).
WilderReference(closes, p) ==
    LET avgGain == RefAverage(RefGains(closes), p)
        avgLoss == RefAverage(RefLosses(closes), p)
        rs == IF avgLoss[1] = 0 THEN RInt(0) ELSE RDiv(avgGain, avgLoss)
    IN  RSub(RInt(100), RDiv(RInt(100), RAdd(RInt(1), rs)))

\* C16: for every series longer than the period, calculate_precise_rsi
\* returns the value of the Wilder fold: averages seeded with the mean of
\* the first `period` gains and losses, updated for every later difference
\* as avg = value/period + avg*(period-1)/period, result
\* 100 - 100/(1 + avgGain/avgLoss) from the last averages.
C16_EqualsWilderReference ==
    ReturnedForLongSeries
    => call_result = WilderReference(call_prices, call_period)

\* A series with a gain and a loss in the seed window and smoothing steps
\* after it.
C16_Witness ==
    /\ ReturnedForLongSeries
    /\ call_period = 3
    /\ call_prices = <<1, 3, 0, 2, 3>>
    /\ call_result = <<1100, 17>>

\* calculate_precise_rsi of the closes 100, 99, ... (n of them, n from one
\* more than the period up to 20), period 14.
DecreasingRsis ==
    { calculate_precise_rsi(ToSeries(Decreasing(n)), RSI_PERIOD) :
        n \in (RSI_PERIOD + 1)..20 }

\* C17: the RSI of closes falling by 1 (15 to 20 of them, period 14) is 0;
\* a call of process_symbol that was answered the 20 closes 100, 99, ..., 81
\* computes 0 and requests the price, and a call with RSI 0 whose price
\* request answered 200 ends reported with exactly one line, the match line
\* showing RSI 0.00.
C17_DecreasingReported ==
    /\ DecreasingRsis = {<<0, 1>>}
    /\ [][\A i \in Tasks :
            ( /\ pc[i] = "computing"
              /\ data[i] = Klines(Decreasing(20))
              /\ pc'[i] # "computing" )
            => /\ last_rsi'[i] = <<0, 1>>
               /\ pc'[i] = "fetching_price"
               /\ price_calls'[i] = 1]_vars
    /\ [](\A i \in Tasks :
            ( /\ last_rsi[i] = <<0, 1>>
              /\ price_res[i] = "ok"
              /\ pc[i] \in TerminalPcs )
            => /\ pc[i] = "reported"
               /\ Len(stdout[i]) = 1
               /\ stdout[i][1].kind = "match"
               /\ stdout[i][1].symbol = symbols[i]
               /\ stdout[i][1].rsi = 0)

\* One call holds the 20 falling closes and is about to compute, another
\* has been reported with RSI 0.
C17_Witness ==
    /\ Len(pc) = 2
    /\ pc[1] = "reported" /\ last_rsi[1] = <<0, 1>> /\ Len(stdout[1]) = 1
    /\ pc[2] = "computing" /\ data[2] = Klines(Decreasing(20))

\* C18: a call of process_symbol whose klines body was too short for the
\* period (200 response, no RSI computed) writes no line of any kind.
C18_ShortSeriesSilent ==
    \A i \in Tasks :
        (series_res[i] = "ok" /\ last_rsi[i] = None /\ pc[i] = "failed")
        => stdout[i] = <<>>

\* C19: a remote call that does not return cannot stall the scan: whenever
\* a call is blocked in a request, the scan has returned or some thread can
\* still take a step (the blocked call is ended by its timeout, so the other
\* symbols and find_low_rsi_coins go on).
C19_UnresponsiveCallBounded ==
    (\E i \in Tasks : pc[i] = "blocked")
    => (main_pc = "returned" \/ ENABLED HangNext)

\* Where the i-th call of process_symbol is, "none" when there is none.
PcOf(i) == IF i \in Tasks THEN pc[i] ELSE "none"

\* C20: print_lock is held exactly by the caller inside the with block of
\* print_flush, so its holder neither waits for it again nor is in a remote
\* call; leaving the block, by return or by a write that raised, frees the
\* lock; and under fair scheduling every caller waiting for the lock gets it.
C20_LockCannotDeadlock ==
    /\ [](\A i \in Tasks : print_lock = i <=> pc[i] = "print_write")
    /\ [](print_lock = 0 \/ print_lock \in Tasks)
    /\ [][\A i \in Tasks :
            (pc[i] = "print_write" /\ pc'[i] # "print_write")
            => print_lock' = 0]_vars
    /\ \A i \in 1..MaxSymbols :
          (PcOf(i) = "print_wait") ~> (PcOf(i) = "print_write")

\* The first call's write raised and it waits to print the error while the
\* second call holds the lock.
C20_Witness ==
    /\ Len(pc) = 2
    /\ series_res[1] = "http_error" /\ stdout[1] = <<>>
    /\ pc[1] = "print_wait" /\ msg[1] = "error"
    /\ pc[2] = "print_write" /\ print_lock = 2

====
